---------------------------- MODULE Spec2Model ----------------------------
(***************************************************************************)
(* A model of the neuroconv adapters:                                      *)
(*   - kpms_utils.dense_syllables_to_events (changepoint extraction) and   *)
(*     write_subject_to_nwb (the syllable event series),                   *)
(*   - tools/neo/neo.py: add_icephys_electrode, add_icephys_recordings,    *)
(*     add_all_to_nwbfile working on one NWBFile container,                *)
(*     write_neo_to_nwb working on the file at save_path, and              *)
(*     get_conversion_from_unit,                                           *)
(*   - spikeglxconverter.SpikeGLXConverter.__init__,                       *)
(*   - the lazily resolved SegX of the segmentation interface classes.     *)
(* Python indices are 0-based; TLA+ sequences are 1-based.  A Python list  *)
(* x is held as a sequence s with x[i] = s[i + 1]; every index that the    *)
(* program itself computes or stores (changepoints, row indices, group     *)
(* indices, electrode ids) is kept 0-based, as in the program.             *)
(***************************************************************************)
EXTENDS Integers, Sequences, FiniteSets, TLC

VARIABLES
    \* ---- keypoint-moseq: write_subject_to_nwb locals
    syllables_arr,      \* per-frame syllable labels (input array)
    syll_ix,            \* first result of dense_syllables_to_events
    syll_lab,           \* second result of dense_syllables_to_events
    kpms_pc,            \* "input" before the extractor ran, "events" after;
                        \* "written" / "ValueError" after write_subject_to_nwb
    timestamps,         \* the timestamps argument, one per frame
    labeled_events,     \* the LabeledEvents container named 'syllable'
    behavior_pm,        \* names of the containers added to the behavior module
    \* ---- icephys: the NWBFile container and the caller's objects
    devices,                            \* nwbfile.devices (names, in insertion order)
    icephys_electrodes,                 \* nwbfile.icephys_electrodes (insertion order)
    intracellular_recordings,           \* nwbfile.intracellular_recordings rows
    icephys_simultaneous_recordings,    \* rows: lists of intracellular row indices
    icephys_sequential_recordings,      \* rows: lists of simultaneous row indices + tag
    metadata,                           \* the caller's metadata object (mutable dict or None)
    warnings,                           \* warnings.warn calls of the last call
    last,                               \* the last call: operation, arguments, outcome
    calls,                              \* number of calls made so far
    \* ---- icephys: write_neo_to_nwb with a save_path
    file_state,         \* the file at save_path: "absent", "valid" or "empty"
    file_content,       \* the container the file holds when it is valid
    io_log,             \* what the last write_neo_to_nwb did with its file handle
    write_args,         \* overwrite and metadata-is-None of the last write_neo_to_nwb
    \* ---- icephys: get_conversion_from_unit
    unit,               \* the unit string (input)
    conversion,         \* the power of ten returned (1e-12 is held as -12)
    unit_warnings,      \* number of warnings.warn calls
    unit_pc,            \* "input" before the resolver ran, "resolved" after
    \* ---- SpikeGLXConverter.__init__
    folder_streams,     \* the streams the extractor finds in the folder
    streams,            \* the streams argument (None, or a list of names)
    data_interfaces,    \* the data_interfaces dict, in insertion order
    glx_outcome,        \* "new" before the constructor ran, then how it ended
    \* ---- segmentation interfaces: the classes' SegX attribute
    segx,               \* per class, the SegX entry of the class's own __dict__
    segx_last           \* the last access or instantiation and what it gave

writeVars == <<file_state, file_content, io_log, write_args>>
unitVars == <<unit, conversion, unit_warnings, unit_pc>>
glxVars == <<folder_streams, streams, data_interfaces, glx_outcome>>
lazyVars == <<segx, segx_last>>

kpmsVars == <<syllables_arr, syll_ix, syll_lab, kpms_pc,
              timestamps, labeled_events, behavior_pm>>
nwbVars == <<devices, icephys_electrodes, intracellular_recordings,
             icephys_simultaneous_recordings, icephys_sequential_recordings>>
icephysVars == <<devices, icephys_electrodes, intracellular_recordings,
                 icephys_simultaneous_recordings, icephys_sequential_recordings,
                 metadata, warnings, last, calls>>
vars == <<syllables_arr, syll_ix, syll_lab, kpms_pc,
          timestamps, labeled_events, behavior_pm,
          devices, icephys_electrodes, intracellular_recordings,
          icephys_simultaneous_recordings, icephys_sequential_recordings,
          metadata, warnings, last, calls,
          file_state, file_content, io_log, write_args,
          unit, conversion, unit_warnings, unit_pc,
          folder_streams, streams, data_interfaces, glx_outcome,
          segx, segx_last>>

\* the parts of the state a call on the in-memory container leaves alone
otherVars == <<kpmsVars, writeVars, unitVars, glxVars, lazyVars>>

---------------------------------------------------------------------------
\* Bounds of the model.

\* longest syllable array
MaxFrames == 5
\* syllable labels are 1 .. MaxLabel
MaxLabel == 3
\* most channels a reader reports
MaxChannels == 2
\* most segments (sweeps) a reader reports
MaxSegments == 2
\* most calls made on one container
MaxCalls == 2
\* longest streams list a caller passes to SpikeGLXConverter
MaxStreams == 2

---------------------------------------------------------------------------
\* Generic helpers.

Range(s) == {s[i] : i \in 1..Len(s)}

Min(a, b) == IF a < b THEN a ELSE b

SeqsUpTo(S, n) == UNION {[1..k -> S] : k \in 0..n}

---------------------------------------------------------------------------
\* Segmentation interfaces: the lazily resolved class attribute SegX.  A class
\* name is held as the sequence of its parts, so that
\* __name__.replace("Interface", "Extractor") is computed on it.

\* the base class, lines 23-28
BaseClass == "BaseSegmentationExtractorInterface"

\* interface classes: three subclasses of the base class, a subclass of one
\* of them, and a subclass of that one which names its extractor itself
InterfaceClasses ==
    {"Suite2pSegmentationInterface", "CnmfeSegmentationInterface",
     "ExtractSegmentationInterface", "Suite2pPlaneSegmentationInterface",
     "Suite2pPlaneNwbSegmentationInterface"}

\* the class a class is derived from
ParentClass(cls) ==
    CASE cls = "Suite2pPlaneSegmentationInterface" -> "Suite2pSegmentationInterface"
      [] cls = "Suite2pPlaneNwbSegmentationInterface" -> "Suite2pPlaneSegmentationInterface"
      [] OTHER -> BaseClass

\* cls.__name__
ClassNameParts(cls) ==
    CASE cls = "Suite2pSegmentationInterface" -> <<"Suite2pSegmentation", "Interface">>
      [] cls = "CnmfeSegmentationInterface" -> <<"CnmfeSegmentation", "Interface">>
      [] cls = "ExtractSegmentationInterface" -> <<"ExtractSegmentation", "Interface">>
      [] cls = "Suite2pPlaneSegmentationInterface" -> <<"Suite2pPlaneSegmentation", "Interface">>
      [] cls = "Suite2pPlaneNwbSegmentationInterface" -> <<"Suite2pPlaneNwbSegmentation", "Interface">>
      [] OTHER -> <<"BaseSegmentation", "Extractor", "Interface">>

\* a value of a class attribute: not in the class's own __dict__ ("absent"),
\* None, or something that is set
Absent == [kind |-> "absent", module |-> "", name |-> <<>>]

NoneValue == [kind |-> "None", module |-> "", name |-> <<>>]

Value(module, name) == [kind |-> "set", module |-> module, name |-> name]

\* SegXName in the class's own __dict__: None in the base class (line 27), set
\* in the one subclass that names its extractor
OwnSegXName(cls) ==
    CASE cls = BaseClass -> NoneValue
      [] cls = "Suite2pPlaneNwbSegmentationInterface" ->
            Value("", <<"NwbSegmentation", "Extractor">>)
      [] OTHER -> Absent

\* SegXModule in the class's own __dict__: None in the base class (line 26)
OwnSegXModule(cls) == IF cls = BaseClass THEN NoneValue ELSE Absent

\* type.__getattribute__(cls, name): the entry of the first class of the
\* method resolution order that has one; own(c) is the entry of class c
RECURSIVE type_getattribute(_, _)
type_getattribute(own, cls) ==
    IF own[cls].kind # "absent" \/ cls = BaseClass THEN own[cls]
    ELSE type_getattribute(own, ParentClass(cls))

AllClasses == InterfaceClasses \cup {BaseClass}

\* str.replace(old, new), part by part
str_replace(parts, old, new) ==
    [k \in 1..Len(parts) |-> IF parts[k] = old THEN new ELSE parts[k]]

\* lines 18-19: the class of the package that the class's SegXModule,
\* SegXName and __name__ select
resolve_extractor(cls) ==
    LET SegXModule == type_getattribute([c \in AllClasses |-> OwnSegXModule(c)], cls)
        SegXName == type_getattribute([c \in AllClasses |-> OwnSegXName(c)], cls)
    IN  Value(IF SegXModule.kind = "set" THEN SegXModule.module ELSE "roiextractors",
              IF SegXName.kind = "set" THEN SegXName.name
              ELSE str_replace(ClassNameParts(cls), "Interface", "Extractor"))

\* _LazySegmentationExtractor.__getattribute__(cls, "SegX"), lines 16-20
lazy_SegX(own, cls) ==
    IF type_getattribute(own, cls).kind = "None"
    THEN resolve_extractor(cls)
    ELSE type_getattribute(own, cls)

\* the classes as the module defines them: SegX = None in the base class
\* (line 28), no SegX of their own in the subclasses
LazyIdle ==
    /\ segx = [c \in AllClasses |-> IF c = BaseClass THEN NoneValue ELSE Absent]
    /\ segx_last = [op |-> "none", cls |-> BaseClass, result |-> NoneValue]

---------------------------------------------------------------------------
\* keypoint-moseq: the changepoint extractor.

\* np.where(mask)[0]: the 0-based positions of the True entries, ascending.
RECURSIVE np_where(_, _)
np_where(mask, j) ==
    IF j > Len(mask) THEN <<>>
    ELSE IF mask[j] THEN <<j - 1>> \o np_where(mask, j + 1)
         ELSE np_where(mask, j + 1)

\* syllables[1:] != syllables[:-1], elementwise: entry j (0-based) compares
\* syllables[j + 1] with syllables[j].
adjacent_unequal(syllables) ==
    [j \in 1..(IF Len(syllables) = 0 THEN 0 ELSE Len(syllables) - 1) |->
        syllables[j + 1] # syllables[j]]

\* A slip of the kind the extractor could have: every frame is compared with
\* the first frame instead of with its predecessor.
dense_syllables_to_events_first(syllables) ==
    LET n == Len(syllables)
        mask == [j \in 1..(IF n = 0 THEN 0 ELSE n - 1) |-> syllables[j + 1] # syllables[1]]
        changepoints == np_where(mask, 1)
    IN  <<changepoints,
          [k \in 1..Len(changepoints) |-> syllables[changepoints[k] + 1]]>>

\* dense_syllables_to_events: changepoints = np.where(...)[0], then the pair
\* (changepoints, syllables[changepoints]).
dense_syllables_to_events(syllables) ==
    LET changepoints == np_where(adjacent_unequal(syllables), 1)
    IN  <<changepoints,
          [k \in 1..Len(changepoints) |-> syllables[changepoints[k] + 1]]>>

\* get_video_timestamps: np.arange(n_frames) * (1 / fps).  Times are held in
\* clock ticks; period is the number of ticks between two frames.
get_video_timestamps(n_frames, period) ==
    [i \in 1..n_frames |-> (i - 1) * period]

\* np.max of a non-empty array.
RECURSIVE np_max(_)
np_max(a) ==
    IF Len(a) = 1 THEN a[1]
    ELSE IF a[1] > np_max(Tail(a)) THEN a[1] ELSE np_max(Tail(a))

\* No LabeledEvents container has been built.
NoLabeledEvents ==
    [made |-> FALSE, name |-> "", timestamps |-> <<>>, data |-> <<>>, labels |-> <<>>]

\* write_subject_to_nwb, lines 161-167: the LabeledEvents container.
\*   timestamps = timestamps[syll_ix]     (0-based fancy indexing)
\*   data       = syll_lab
\*   labels     = [f"Syllable {i}" for i in range(np.max(syll_lab + 1))]
\* np.max raises ValueError on a zero-size array.
LabeledEvents(ix, lab, ts) ==
    IF lab = <<>> THEN [outcome |-> "ValueError", value |-> NoLabeledEvents]
    ELSE [outcome |-> "ok",
          value |-> [made |-> TRUE,
                     name |-> "syllable",
                     timestamps |-> [k \in 1..Len(ix) |-> ts[ix[k] + 1]],
                     data |-> lab,
                     labels |-> [i \in 1..np_max([k \in 1..Len(lab) |-> lab[k] + 1]) |->
                                    <<"Syllable ", i - 1>>]]]

\* write_subject_to_nwb, lines 97-158: the containers built before the
\* syllables, by name (PoseEstimation keeps the default name of its class).
ContainersBeforeSyllables == <<"centroid", "heading", "PoseEstimation", "pose_latents">>

\* write_subject_to_nwb, lines 160-181, on the containers of the behavior
\* module: the events are extracted, the LabeledEvents container is built,
\* and only then are the five containers added, in the order of lines 175-179.
write_subject_to_nwb(pm, arr, ts) ==
    LET events == dense_syllables_to_events(arr)
        syllables == LabeledEvents(events[1], events[2], ts)
    IN  [outcome |-> IF syllables.outcome = "ok" THEN "written" ELSE syllables.outcome,
         syll_ix |-> events[1],
         syll_lab |-> events[2],
         labeled_events |-> syllables.value,
         behavior_pm |-> IF syllables.outcome = "ok"
                         THEN (pm \o ContainersBeforeSyllables) \o <<syllables.value.name>>
                         ELSE pm]

KpmsIdle ==
    /\ syllables_arr = <<>>
    /\ syll_ix = <<>>
    /\ syll_lab = <<>>
    /\ kpms_pc = "input"
    /\ timestamps = <<>>
    /\ labeled_events = NoLabeledEvents
    /\ behavior_pm = <<>>

\* dense_syllables_to_events called on its own, as line 160 of
\* write_subject_to_nwb calls it: syll_ix, syll_lab = dense_syllables_to_events(...)
ExtractSyllables ==
    /\ kpms_pc = "input"
    /\ syll_ix' = dense_syllables_to_events(syllables_arr)[1]
    /\ syll_lab' = dense_syllables_to_events(syllables_arr)[2]
    /\ kpms_pc' = "events"
    /\ UNCHANGED <<syllables_arr, timestamps, labeled_events, behavior_pm>>
    /\ UNCHANGED <<icephysVars, writeVars, unitVars, glxVars, lazyVars>>

\* write_subject_to_nwb(nwbfile, ..., syllables_arr, timestamps, ...), the whole
\* call; an exception leaves the behavior module as it was.
WriteSubjectToNwb ==
    /\ kpms_pc = "input"
    /\ \E r \in {write_subject_to_nwb(behavior_pm, syllables_arr, timestamps)} :
        /\ syll_ix' = r.syll_ix
        /\ syll_lab' = r.syll_lab
        /\ labeled_events' = r.labeled_events
        /\ behavior_pm' = r.behavior_pm
        /\ kpms_pc' = r.outcome
    /\ UNCHANGED <<syllables_arr, timestamps>>
    /\ UNCHANGED <<icephysVars, writeVars, unitVars, glxVars, lazyVars>>

---------------------------------------------------------------------------
\* icephys: values.

\* pynwb classes of response_classes / stim_classes (neo.py lines 17-26)
response_classes ==
    [voltage_clamp |-> "VoltageClampSeries",
     current_clamp |-> "CurrentClampSeries",
     izero |-> "IZeroClampSeries"]

stim_classes ==
    [voltage_clamp |-> "VoltageClampStimulusSeries",
     current_clamp |-> "CurrentClampStimulusSeries"]

\* the name of a device made up when the metadata names none
FallbackDeviceName == "DeviceIcephys"

\* f"icephys_electrode_{elec_id}": the prefix and the formatted number
ElectrodeDefaultName(elec_id) == <<"icephys_electrode_", elec_id>>

\* An entry of metadata["Icephys"]["Electrodes"]: a dict with optional keys,
\* or something that is not a dict.
ElectrodeEntry(isDict, hasName, name, hasDeviceName, device_name, hasDescription, description) ==
    [isDict |-> isDict, hasName |-> hasName, name |-> name,
     hasDeviceName |-> hasDeviceName, device_name |-> device_name,
     hasDescription |-> hasDescription, description |-> description]

NotADict == ElectrodeEntry(FALSE, FALSE, <<"", 0>>, FALSE, "", FALSE, "")

\* A metadata object: None, or a dict whose keys may be missing.
Metadata(isNone, hasIcephys, hasDevice, Device, hasElectrodes, Electrodes, hasSessions, Sessions, hasEcephys, EcephysDevice) ==
    [isNone |-> isNone, hasIcephys |-> hasIcephys,
     hasDevice |-> hasDevice, Device |-> Device,
     hasElectrodes |-> hasElectrodes, Electrodes |-> Electrodes,
     hasSessions |-> hasSessions, Sessions |-> Sessions,
     hasEcephys |-> hasEcephys, EcephysDevice |-> EcephysDevice]

MetadataNone == Metadata(TRUE, FALSE, FALSE, <<>>, FALSE, <<>>, FALSE, <<>>, FALSE, <<>>)

\* dict(): an empty metadata dict
MetadataEmpty == Metadata(FALSE, FALSE, FALSE, <<>>, FALSE, <<>>, FALSE, <<>>, FALSE, <<>>)

---------------------------------------------------------------------------
\* icephys: the device helper (nwb_helpers.add_device_from_metadata).

\* metadata[modality]["Device"] when the caller gave it, else the one default
\* entry with the fallback name.  A device entry is held as its name.
device_entries(modality, md) ==
    IF modality = "Icephys"
    THEN IF ~md.isNone /\ md.hasIcephys /\ md.hasDevice
         THEN md.Device ELSE <<FallbackDeviceName>>
    ELSE IF ~md.isNone /\ md.hasEcephys
         THEN md.EcephysDevice ELSE <<FallbackDeviceName>>

\* for dev in Device: create it unless a device of that name exists
RECURSIVE create_devices(_, _, _)
create_devices(devs, entries, i) ==
    IF i > Len(entries) THEN devs
    ELSE create_devices(IF entries[i] \in Range(devs) THEN devs
                        ELSE Append(devs, entries[i]),
                        entries, i + 1)

add_device_from_metadata(devs, modality, md) ==
    create_devices(devs, device_entries(modality, md), 1)

---------------------------------------------------------------------------
\* icephys: the electrode registrar (add_icephys_electrode).

ElectrodeNames(electrodes) == {electrodes[i].name : i \in 1..Len(electrodes)}

\* a slip: the electrode ids are counted from 1
electrode_defaults_from_one(neo_reader, devs) ==
    [i \in 1..neo_reader.n_channels |->
        ElectrodeEntry(TRUE, TRUE, ElectrodeDefaultName(i),
                       TRUE, devs[1], TRUE, "no description")]

\* defaults (lines 175-182): one entry per reader channel, bound to the first
\* device of the container
electrode_defaults(neo_reader, devs) ==
    [i \in 1..neo_reader.n_channels |->
        ElectrodeEntry(TRUE, TRUE, ElectrodeDefaultName(i - 1),
                       TRUE, devs[1], TRUE, "no description")]

\* new_device_metadata = dict(Ecephys=dict(Device=[dict(name=device_name)]))
new_device_metadata(device_name) ==
    Metadata(FALSE, FALSE, FALSE, <<>>, FALSE, <<>>, FALSE, <<>>,
             TRUE, <<device_name>>)

\* a slip: the container is never asked whether the name is taken
electrode_exists_never(name, electrodes) == FALSE

\* line 193: electrode_name not in nwbfile.icephys_electrodes
electrode_exists(name, electrodes) == name \in ElectrodeNames(electrodes)

\* The loop of lines 192-207 from entry i on.  r carries the container's
\* devices and electrodes, the warnings and the outcome.
RECURSIVE create_electrodes(_, _, _, _)
create_electrodes(entries, i, defaults, r) ==
    IF i > Len(entries) \/ r.outcome # "ok" THEN r
    ELSE
    LET elec == entries[i]
        name == IF elec.hasName THEN elec.name ELSE defaults[1].name
    IN  IF electrode_exists(name, r.icephys_electrodes)
        THEN create_electrodes(entries, i + 1, defaults, r)
        ELSE
        LET device_name == IF elec.hasDeviceName THEN elec.device_name
                           ELSE defaults[1].device_name
            missing == device_name \notin Range(r.devices)
            devs == IF missing
                    THEN add_device_from_metadata(r.devices, "Icephys",
                                                  new_device_metadata(device_name))
                    ELSE r.devices
            warns == IF missing THEN r.warnings \cup {"device_autogenerated"}
                     ELSE r.warnings
        IN  IF device_name \notin Range(devs)
            THEN \* nwbfile.devices[device_name] raises
                 [r EXCEPT !.devices = devs, !.warnings = warns,
                           !.outcome = "KeyError_device"]
            ELSE create_electrodes(entries, i + 1, defaults,
                    [r EXCEPT !.devices = devs, !.warnings = warns,
                              !.icephys_electrodes =
                                  Append(@, [name |-> name,
                                             description |->
                                                IF elec.hasDescription
                                                THEN elec.description
                                                ELSE defaults[1].description,
                                             device |-> device_name])])

\* add_icephys_electrode(neo_reader, nwbfile, metadata).  nwb is a record
\* with the container's tables; the result carries the container's devices
\* and electrodes, the caller's metadata object as the call leaves it, the
\* warnings and the outcome.
add_icephys_electrode(neo_reader, nwb, md) ==
    LET noDevices == Len(nwb.devices) = 0
        devs1 == IF noDevices
                 THEN add_device_from_metadata(nwb.devices, "Icephys", md)
                 ELSE nwb.devices
        w1 == IF noDevices THEN {"no_devices"} ELSE {}
        \* lines 169-173
        md1 == IF md.isNone THEN MetadataEmpty ELSE md
        md2 == IF md1.hasIcephys THEN md1 ELSE [md1 EXCEPT !.hasIcephys = TRUE]
        defaults == electrode_defaults(neo_reader, devs1)
        \* lines 184-185
        md3 == IF ~md2.hasElectrodes \/ Len(md2.Electrodes) = 0
               THEN [md2 EXCEPT !.hasElectrodes = TRUE, !.Electrodes = defaults]
               ELSE md2
        \* the local dict is the caller's object unless the caller passed None
        callerMd == IF md.isNone THEN md ELSE md3
        start == [devices |-> devs1,
                  icephys_electrodes |-> nwb.icephys_electrodes,
                  metadata |-> callerMd,
                  warnings |-> w1,
                  outcome |-> "ok"]
    IN  IF \E k \in 1..Len(md3.Electrodes) : ~md3.Electrodes[k].isDict
        THEN [start EXCEPT !.outcome = "AssertionError_electrodes"]
        ELSE create_electrodes(md3.Electrodes, 1, defaults, start)

---------------------------------------------------------------------------
\* icephys: the recording assembler (add_icephys_recordings).

ValidExperimentTypes == {"voltage_clamp", "current_clamp", "izero"}

\* get_number_of_segments: neo_reader.header["nb_segment"][block]
get_number_of_segments(neo_reader) == neo_reader.nb_segment

\* lines 237-245: no protocol section before ABF2, else len(protocol[0])
number_of_commands(neo_reader) ==
    IF neo_reader.fFileVersionNumber < 2 THEN 0 ELSE neo_reader.n_protocol

\* a slip: the caller's type is kept when there are no commands
experiment_type_kept(n_commands, icephys_experiment_type) ==
    icephys_experiment_type

\* lines 247-248: without commands the experiment type is "izero"
experiment_type(n_commands, icephys_experiment_type) ==
    IF n_commands = 0 THEN "izero" ELSE icephys_experiment_type

\* a slip: the count check is left out
commands_match_unchecked(n_commands, n_segments) == TRUE

\* lines 252-255: the assertion n_commands == n_segments (else branch only)
commands_match(n_commands, n_segments) ==
    n_commands = 0 \/ n_commands = n_segments

\* a slip: the running row index restarts with every call
row_offset_reset(rows) == -1

\* lines 273-276: ri, the index of the last row of the table (rows are
\* numbered 0, 1, ... by the table), -1 for an empty table
row_offset(rows) ==
    IF Len(rows) > 0 THEN Len(rows) - 1 ELSE -1

\* lines 278-281
simultaneous_offset(sims) == Len(sims)

\* a slip: always the first session entry
sessions_offset_first(seqs) == 0

\* lines 283-286
sessions_offset(seqs) == Len(seqs)

\* neo_reader.get_signal_t_start(block_index=0, seg_index=si)
get_signal_t_start(neo_reader, si) == neo_reader.t_start[si + 1]

\* lines 304-305
starting_time_of(neo_reader, si, relative_session_start_time) ==
    get_signal_t_start(neo_reader, si) + relative_session_start_time

NoStimulus == [cls |-> "none", name |-> <<"none", 0, 0>>,
               description |-> <<"none", "none">>, starting_time |-> -1]

\* a slip: the list of the segment before is carried on
segment_recordings_carried(previous) == previous

\* line 295: recordings = list(), at the start of every segment
segment_recordings(previous) == <<>>

\* The electrode loop of lines 296-345 for segment si, from electrode ei on.
\* c holds the values fixed for the call; a holds the intracellular table,
\* ri and the recordings list.
RECURSIVE electrode_loop(_, _, _, _)
electrode_loop(c, si, ei, a) ==
    IF ei >= Len(c.electrodes) THEN a
    ELSE IF ei \in c.skip_electrodes THEN electrode_loop(c, si, ei + 1, a)
    ELSE
    LET electrode == c.electrodes[ei + 1]
        ri == a.ri + 1
        starting_time == starting_time_of(c.neo_reader, si, c.relative_session_start_time)
        sweep == si + 1 + c.simultaneous_recordings_offset
        response == [cls |-> response_classes[c.icephys_experiment_type],
                     name |-> <<c.icephys_experiment_type, sweep, ei>>,
                     description |-> <<"Response to: ", c.session_stimulus_type>>,
                     starting_time |-> starting_time]
        withStimulus == c.icephys_experiment_type # "izero"
        stimulus == IF withStimulus
                    THEN [cls |-> stim_classes[c.icephys_experiment_type],
                          name |-> <<"stimulus", sweep, ei>>,
                          description |-> <<"Stim type: ", c.session_stimulus_type>>,
                          starting_time |-> starting_time]
                    ELSE NoStimulus
        \* nwbfile.add_intracellular_recording: the table appends the row and
        \* returns its index, the number of rows it held before
        icephys_recording == Len(a.rows)
        row == [id |-> icephys_recording, ri |-> ri,
                electrode |-> electrode.name,
                response |-> response, stimulus |-> stimulus,
                call |-> c.call]
    IN  electrode_loop(c, si, ei + 1,
            [rows |-> Append(a.rows, row), ri |-> ri,
             recordings |-> Append(a.recordings, icephys_recording)])

\* The segment loop of lines 293-348 from segment si on.  a holds the
\* intracellular table, ri, the simultaneous table, the list
\* simultaneous_recordings and the recordings of the segment before.
RECURSIVE segment_loop(_, _, _)
segment_loop(c, si, a) ==
    IF si >= c.n_segments THEN a
    ELSE
    LET e == electrode_loop(c, si, 0,
                 [rows |-> a.rows, ri |-> a.ri,
                  recordings |-> segment_recordings(a.recordings)])
        \* nwbfile.add_icephys_simultaneous_recording returns the new row's index
        sim_rec == Len(a.sims)
    IN  segment_loop(c, si + 1,
            [rows |-> e.rows, ri |-> e.ri,
             sims |-> Append(a.sims, e.recordings),
             simultaneous_recordings |-> Append(a.simultaneous_recordings, sim_rec),
             recordings |-> e.recordings])

\* a slip: the group is tagged with the session's stimulus type of the metadata
sequential_recording_session_tag(simultaneous_recordings, stimulus_type, session_stimulus_type) ==
    [simultaneous_recordings |-> simultaneous_recordings,
     stimulus_type |-> session_stimulus_type]

\* lines 350-352: the row of the sequential recordings table
sequential_recording(simultaneous_recordings, stimulus_type, session_stimulus_type) ==
    [simultaneous_recordings |-> simultaneous_recordings,
     stimulus_type |-> stimulus_type]

Container(devs, elecs, rows, sims, seqs) ==
    [devices |-> devs, icephys_electrodes |-> elecs,
     intracellular_recordings |-> rows,
     icephys_simultaneous_recordings |-> sims,
     icephys_sequential_recordings |-> seqs]

\* What a call leaves behind: the container, the caller's metadata object,
\* the warnings it emitted and how it ended.
Result(nwb, md, warns, outcome) ==
    [devices |-> nwb.devices, icephys_electrodes |-> nwb.icephys_electrodes,
     intracellular_recordings |-> nwb.intracellular_recordings,
     icephys_simultaneous_recordings |-> nwb.icephys_simultaneous_recordings,
     icephys_sequential_recordings |-> nwb.icephys_sequential_recordings,
     metadata |-> md, warnings |-> warns, outcome |-> outcome]

\* lines 273-352, once the checks passed and the electrodes exist
assemble_recordings(neo_reader, nwb, md, warns, etype, stimulus_type, skip_electrodes, call) ==
    LET ri == row_offset(nwb.intracellular_recordings)
        simultaneous_recordings_offset ==
            simultaneous_offset(nwb.icephys_simultaneous_recordings)
        offset == sessions_offset(nwb.icephys_sequential_recordings)
    IN  IF md.isNone THEN Result(nwb, md, warns, "TypeError_metadata")
        ELSE IF ~md.hasIcephys \/ ~md.hasSessions
        THEN Result(nwb, md, warns, "KeyError_sessions")
        ELSE IF offset >= Len(md.Sessions)
        THEN Result(nwb, md, warns, "IndexError_sessions")
        ELSE
        LET session == md.Sessions[offset + 1]
            c == [neo_reader |-> neo_reader,
                  n_segments |-> get_number_of_segments(neo_reader),
                  electrodes |-> SubSeq(nwb.icephys_electrodes, 1,
                                        Min(Len(nwb.icephys_electrodes),
                                            neo_reader.n_channels)),
                  skip_electrodes |-> skip_electrodes,
                  icephys_experiment_type |-> etype,
                  relative_session_start_time |-> session.relative_session_start_time,
                  session_stimulus_type |-> session.stimulus_type,
                  simultaneous_recordings_offset |-> simultaneous_recordings_offset,
                  call |-> call]
            a == segment_loop(c, 0,
                     [rows |-> nwb.intracellular_recordings, ri |-> ri,
                      sims |-> nwb.icephys_simultaneous_recordings,
                      simultaneous_recordings |-> <<>>,
                      recordings |-> <<>>])
        IN  Result(Container(nwb.devices, nwb.icephys_electrodes, a.rows, a.sims,
                             Append(nwb.icephys_sequential_recordings,
                                    sequential_recording(a.simultaneous_recordings,
                                                         stimulus_type,
                                                         session.stimulus_type))),
                   md, warns, "ok")

\* add_icephys_recordings(neo_reader, nwbfile, metadata, icephys_experiment_type,
\* stimulus_type, skip_electrodes); call numbers the invocation.
add_icephys_recordings(neo_reader, nwb, md, icephys_experiment_type, stimulus_type, skip_electrodes, call) ==
    LET n_segments == get_number_of_segments(neo_reader)
        n_commands == number_of_commands(neo_reader)
        w1 == IF neo_reader.fFileVersionNumber < 2 THEN {"abf1_no_protocol"} ELSE {}
        etype == experiment_type(n_commands, icephys_experiment_type)
        w2 == IF n_commands = 0 THEN w1 \cup {"no_commands_izero"} ELSE w1
    IN  IF ~commands_match(n_commands, n_segments)
        THEN Result(nwb, md, w2, "AssertionError_commands")
        ELSE IF etype \notin ValidExperimentTypes
        THEN Result(nwb, md, w2, "AssertionError_experiment_type")
        ELSE IF Len(nwb.icephys_electrodes) = 0
        THEN LET e == add_icephys_electrode(neo_reader, nwb, md)
                 nwb1 == [nwb EXCEPT !.devices = e.devices,
                                     !.icephys_electrodes = e.icephys_electrodes]
                 w3 == w2 \cup {"no_electrodes"} \cup e.warnings
             IN  IF e.outcome # "ok"
                 THEN Result(nwb1, e.metadata, w3, e.outcome)
                 ELSE assemble_recordings(neo_reader, nwb1, e.metadata, w3, etype,
                                          stimulus_type, skip_electrodes, call)
        ELSE assemble_recordings(neo_reader, nwb, md, w2, etype,
                                 stimulus_type, skip_electrodes, call)

\* add_all_to_nwbfile: the device, the electrodes, then the recordings
add_all_to_nwbfile(neo_reader, nwb, md, icephys_experiment_type, stimulus_type, skip_electrodes, call) ==
    LET devs == add_device_from_metadata(nwb.devices, "Icephys", md)
        nwb1 == [nwb EXCEPT !.devices = devs]
        e == add_icephys_electrode(neo_reader, nwb1, md)
        nwb2 == [nwb1 EXCEPT !.devices = e.devices,
                             !.icephys_electrodes = e.icephys_electrodes]
    IN  IF e.outcome # "ok"
        THEN Result(nwb2, e.metadata, e.warnings, e.outcome)
        ELSE LET r == add_icephys_recordings(neo_reader, nwb2, e.metadata,
                                             icephys_experiment_type, stimulus_type,
                                             skip_electrodes, call)
             IN  [r EXCEPT !.warnings = e.warnings \cup @]

---------------------------------------------------------------------------
\* icephys: the inputs of the calls.

\* A reader (an ABF file): channels, segments, file version, the number of
\* command traces of its protocol section (none before ABF2), and the start
\* time of each segment.
Readers ==
    {[n_channels |-> ch, nb_segment |-> sg, fFileVersionNumber |-> v,
      n_protocol |-> cm, t_start |-> [i \in 1..sg |-> i - 1]] :
        ch \in 1..MaxChannels, sg \in 1..MaxSegments,
        v \in {1, 2}, cm \in 0..MaxSegments} \
    {r \in [n_channels : 1..MaxChannels, nb_segment : 1..MaxSegments,
            fFileVersionNumber : {1}, n_protocol : 1..MaxSegments,
            t_start : SeqsUpTo(0..MaxSegments, MaxSegments)] : TRUE}

NoReader == [n_channels |-> 0, nb_segment |-> 0, fFileVersionNumber |-> 0,
             n_protocol |-> 0, t_start |-> <<>>]

\* icephys_experiment_type as callers pass it: a valid type, a string that is
\* none of the three, or None
ExperimentTypeChoices == {"voltage_clamp", "current_clamp", "izero", "None"}

\* stimulus_type as callers pass it
StimulusTypeChoices == {"not described", "ramp"}

\* skip_electrodes as callers pass it: no electrode, or one electrode id
SkipChoices == {{}} \cup {{e} : e \in 0..(MaxChannels - 1)}

\* metadata["Icephys"]["Sessions"]: n entries, session k starting 10 k after
\* the first
Sessions(n) ==
    [k \in 1..n |->
        [relative_session_start_time |-> 10 * (k - 1),
         stimulus_type |-> IF k % 2 = 1 THEN "ramp" ELSE "step"]]

PatchElectrode ==
    ElectrodeEntry(TRUE, TRUE, <<"patch_", 0>>, TRUE, "Amplifier", TRUE, "whole-cell")

\* a dict that names only the electrode
NameOnlyElectrode ==
    ElectrodeEntry(TRUE, TRUE, <<"patch_", 1>>, FALSE, "", FALSE, "")

\* {}: a dict with no key
EmptyElectrode == ElectrodeEntry(TRUE, FALSE, <<"", 0>>, FALSE, "", FALSE, "")

\* The metadata objects callers start with.
MetadataChoices ==
    {MetadataNone,
     MetadataEmpty,
     \* sessions only: devices and electrodes are defaulted
     Metadata(FALSE, TRUE, FALSE, <<>>, FALSE, <<>>, TRUE, Sessions(MaxCalls), FALSE, <<>>),
     \* a device, an empty electrode list, one session
     Metadata(FALSE, TRUE, TRUE, <<"Amplifier">>, TRUE, <<>>, TRUE, Sessions(1), FALSE, <<>>),
     \* electrodes naming a device the metadata does not list
     Metadata(FALSE, TRUE, FALSE, <<>>, TRUE, <<PatchElectrode, NameOnlyElectrode>>,
              TRUE, Sessions(MaxCalls), FALSE, <<>>),
     \* electrodes naming the device the metadata lists
     Metadata(FALSE, TRUE, TRUE, <<"Amplifier">>, TRUE, <<PatchElectrode, EmptyElectrode>>,
              TRUE, Sessions(MaxCalls), FALSE, <<>>),
     \* an electrode entry that is not a dict
     Metadata(FALSE, TRUE, FALSE, <<>>, TRUE, <<NameOnlyElectrode, NotADict>>,
              TRUE, Sessions(MaxCalls), FALSE, <<>>)}

Call(op, outcome, neo_reader, icephys_experiment_type, stimulus_type, skip_electrodes) ==
    [op |-> op, outcome |-> outcome, neo_reader |-> neo_reader,
     icephys_experiment_type |-> icephys_experiment_type,
     stimulus_type |-> stimulus_type, skip_electrodes |-> skip_electrodes]

nwbfile == Container(devices, icephys_electrodes, intracellular_recordings,
                     icephys_simultaneous_recordings, icephys_sequential_recordings)

---------------------------------------------------------------------------
\* icephys: the state machine.

\* pynwb.NWBFile(...): a container with empty tables
IcephysIdle ==
    /\ devices = <<>>
    /\ icephys_electrodes = <<>>
    /\ intracellular_recordings = <<>>
    /\ icephys_simultaneous_recordings = <<>>
    /\ icephys_sequential_recordings = <<>>
    /\ warnings = {}
    /\ last = Call("none", "ok", NoReader, "None", "not described", {})
    /\ calls = 0

\* nothing was written to save_path yet
WriteIdle ==
    /\ file_state = "absent"
    /\ file_content = Container(<<>>, <<>>, <<>>, <<>>, <<>>)
    /\ io_log = <<>>
    /\ write_args = [save_path |-> FALSE, overwrite |-> FALSE, metadata_is_none |-> FALSE]

\* the unit resolver did not run
UnitsIdle ==
    /\ unit = ""
    /\ conversion = 0
    /\ unit_warnings = 0
    /\ unit_pc = "input"

\* no converter was constructed
GlxIdle ==
    /\ folder_streams = <<>>
    /\ streams = [isNone |-> TRUE, value |-> <<>>]
    /\ data_interfaces = <<>>
    /\ glx_outcome = "new"

Init ==
    /\ KpmsIdle
    /\ IcephysIdle
    /\ WriteIdle
    /\ UnitsIdle
    /\ GlxIdle
    /\ LazyIdle
    /\ metadata \in MetadataChoices

\* the state a call leaves behind
Leaves(r) ==
    /\ devices' = r.devices
    /\ icephys_electrodes' = r.icephys_electrodes
    /\ intracellular_recordings' = r.intracellular_recordings
    /\ icephys_simultaneous_recordings' = r.icephys_simultaneous_recordings
    /\ icephys_sequential_recordings' = r.icephys_sequential_recordings
    /\ metadata' = r.metadata
    /\ warnings' = r.warnings

\* a caller runs add_icephys_electrode(neo_reader, nwbfile, metadata)
CallAddIcephysElectrode ==
    /\ calls < MaxCalls
    /\ \E neo_reader \in {r \in Readers : r.nb_segment = 1 /\ r.fFileVersionNumber = 1} :
        \E e \in {add_icephys_electrode(neo_reader, nwbfile, metadata)} :
            /\ devices' = e.devices
            /\ icephys_electrodes' = e.icephys_electrodes
            /\ metadata' = e.metadata
            /\ warnings' = e.warnings
            /\ last' = Call("add_icephys_electrode", e.outcome, neo_reader,
                            "None", "not described", {})
    /\ calls' = calls + 1
    /\ UNCHANGED <<intracellular_recordings, icephys_simultaneous_recordings,
                   icephys_sequential_recordings, otherVars>>

\* a caller runs add_icephys_recordings(...)
CallAddIcephysRecordings ==
    /\ calls < MaxCalls
    /\ \E neo_reader \in Readers, etype \in ExperimentTypeChoices,
          stimulus_type \in StimulusTypeChoices, skip_electrodes \in SkipChoices :
        \E r \in {add_icephys_recordings(neo_reader, nwbfile, metadata, etype,
                                           stimulus_type, skip_electrodes, calls + 1)} :
            /\ Leaves(r)
            /\ last' = Call("add_icephys_recordings", r.outcome, neo_reader,
                            etype, stimulus_type, skip_electrodes)
    /\ calls' = calls + 1
    /\ UNCHANGED otherVars

\* a caller runs add_all_to_nwbfile(...), leaving skip_electrodes at its
\* default () and passing the stimulus type "not described"
CallAddAllToNwbfile ==
    /\ calls < MaxCalls
    /\ \E neo_reader \in Readers, etype \in ExperimentTypeChoices,
          stimulus_type \in {"not described"}, skip_electrodes \in {{}} :
        \E r \in {add_all_to_nwbfile(neo_reader, nwbfile, metadata, etype,
                                       stimulus_type, skip_electrodes, calls + 1)} :
            /\ Leaves(r)
            /\ last' = Call("add_all_to_nwbfile", r.outcome, neo_reader,
                            etype, stimulus_type, skip_electrodes)
    /\ calls' = calls + 1
    /\ UNCHANGED otherVars

Next ==
    \/ CallAddIcephysElectrode
    \/ CallAddIcephysRecordings
    \/ CallAddAllToNwbfile

Spec == Init /\ [][Next]_vars

---------------------------------------------------------------------------
\* icephys: write_neo_to_nwb.  The file at save_path is "absent", "valid" (an
\* NWB file holding file_content), "empty" (created or truncated, nothing
\* written) or "partial" (a write that was cut short).

\* lines 129-136: the default metadata, with a device and nothing else
get_nwb_metadata(neo_reader) ==
    Metadata(FALSE, TRUE, TRUE, <<"Device">>, FALSE, <<>>, FALSE, <<>>, FALSE, <<>>)

\* pynwb.NWBFile(**nwbfile_kwargs), lines 524-530
NewNWBFile == Container(<<>>, <<>>, <<>>, <<>>, <<>>)

\* a slip: the file is always opened in create mode
read_mode_always_create(is_file, overwrite) == "w"

\* lines 515-518
read_mode(is_file, overwrite) ==
    IF is_file /\ ~overwrite THEN "r+" ELSE "w"

\* pynwb.NWBHDF5IO(path, mode): mode "w" creates the file or truncates it,
\* mode "r+" leaves it as it is
open_file(mode, fstate) == IF mode = "w" THEN "empty" ELSE fstate

\* a slip: the handle is released only when the block ends normally
with_exit_on_success(log, outcome) ==
    IF outcome = "ok" THEN Append(log, "close") ELSE log

\* line 520, the with statement: io.close() on every way out of the block
with_exit(log, outcome) == Append(log, "close")

\* What a write_neo_to_nwb call leaves behind: the file, the use of the
\* handle, the container in memory, the caller's metadata, the warnings and
\* the outcome.
WriteResult(fstate, fcontent, log, r, md, outcome) ==
    [file_state |-> fstate,
     file_content |-> IF fstate = "valid" THEN fcontent ELSE NewNWBFile,
     io_log |-> log, nwb |-> r, metadata |-> md, warnings |-> r.warnings,
     outcome |-> outcome]

\* the element of a one-element set; {f(x) : x \in {e}} computes e once
TheOne(S) == CHOOSE x \in S : TRUE

\* lines 532-533 and the end of the with block, once add_all_to_nwbfile ended
\* as r: io.write when it raised nothing, then the handle is released.
\* io_write is how io.write ends: "ok", "fails_clean" (nothing reached the
\* file) or "fails_partial".
write_and_close(r, opened, fcontent, log, md, io_write) ==
    LET callerMd == IF md.isNone THEN md ELSE r.metadata
        log2 == Append(log, "add_all")
        log3 == Append(log2, "write")
        written == Container(r.devices, r.icephys_electrodes,
                             r.intracellular_recordings,
                             r.icephys_simultaneous_recordings,
                             r.icephys_sequential_recordings)
    IN  IF r.outcome # "ok"
        THEN WriteResult(opened, fcontent, with_exit(log2, r.outcome),
                         r, callerMd, r.outcome)
        ELSE IF io_write = "ok"
        THEN WriteResult("valid", written, with_exit(log3, "ok"),
                         r, callerMd, "ok")
        ELSE WriteResult(IF io_write = "fails_partial" THEN "partial" ELSE opened,
                         fcontent, with_exit(log3, "Error_write"),
                         r, callerMd, "Error_write")

\* write_neo_to_nwb(neo_reader, save_path, overwrite, metadata=md, ...), lines
\* 503-533
write_neo_to_nwb_save_path(neo_reader, fstate, fcontent, overwrite, md, icephys_experiment_type, stimulus_type, skip_electrodes, io_write, call) ==
    LET md_local == IF md.isNone THEN get_nwb_metadata(neo_reader) ELSE md
        mode == read_mode(fstate # "absent", overwrite)
        opened == open_file(mode, fstate)
        log1 == IF mode = "r+" THEN <<"open_r+", "read">> ELSE <<"open_w">>
        unread == Result(NewNWBFile, md, {}, "Error_read")
    IN  IF mode = "r+" /\ fstate # "valid"
        THEN \* io.read() raises on a file that holds no NWB content
             WriteResult(fstate, fcontent, with_exit(log1, "Error_read"),
                         unread, md, "Error_read")
        ELSE
        LET nwb == IF mode = "r+" THEN fcontent ELSE NewNWBFile
        IN  TheOne({write_and_close(r, opened, fcontent, log1, md, io_write) :
                       r \in {add_all_to_nwbfile(neo_reader, nwb, md_local,
                                                 icephys_experiment_type,
                                                 stimulus_type, skip_electrodes,
                                                 call)}})

\* write_neo_to_nwb(neo_reader, nwbfile=nwb, metadata=md, ...), lines 503-513
\* and 535
write_neo_to_nwb_nwbfile(neo_reader, nwb, md, icephys_experiment_type, stimulus_type, skip_electrodes, call) ==
    LET md_local == IF md.isNone THEN get_nwb_metadata(neo_reader) ELSE md
    IN  [add_all_to_nwbfile(neo_reader, nwb, md_local, icephys_experiment_type,
                            stimulus_type, skip_electrodes, call)
            EXCEPT !.metadata = IF md.isNone THEN md ELSE @]

\* the readers of the write path: ABF2 files
WriteReaders == {r \in Readers : r.fFileVersionNumber = 2}

\* how io.write(nwbfile) may end
IoWriteChoices == {"ok", "fails_clean", "fails_partial"}

\* a caller runs write_neo_to_nwb(neo_reader, save_path, overwrite, ...)
WriteNeoToNwbSavePath ==
    /\ calls < MaxCalls
    /\ \E neo_reader \in WriteReaders, overwrite \in BOOLEAN,
          etype \in ExperimentTypeChoices, io_write \in IoWriteChoices :
        \E w \in {write_neo_to_nwb_save_path(neo_reader, file_state, file_content,
                                             overwrite, metadata, etype,
                                             "not described", {}, io_write,
                                             calls + 1)} :
            /\ file_state' = w.file_state
            /\ file_content' = w.file_content
            /\ io_log' = w.io_log
            /\ metadata' = w.metadata
            /\ warnings' = w.warnings
            /\ write_args' = [save_path |-> TRUE, overwrite |-> overwrite,
                              metadata_is_none |-> metadata.isNone]
            /\ last' = Call("write_neo_to_nwb", w.outcome, neo_reader, etype,
                            "not described", {})
    /\ calls' = calls + 1
    /\ UNCHANGED <<nwbVars, kpmsVars, unitVars, glxVars, lazyVars>>

\* a caller runs write_neo_to_nwb(neo_reader, nwbfile=nwbfile, ...)
WriteNeoToNwbNwbfile ==
    /\ calls < MaxCalls
    /\ \E neo_reader \in WriteReaders, etype \in ExperimentTypeChoices :
        \E r \in {write_neo_to_nwb_nwbfile(neo_reader, nwbfile, metadata, etype,
                                           "not described", {}, calls + 1)} :
            /\ Leaves(r)
            /\ write_args' = [save_path |-> FALSE, overwrite |-> FALSE,
                              metadata_is_none |-> metadata.isNone]
            /\ last' = Call("write_neo_to_nwb", r.outcome, neo_reader, etype,
                            "not described", {})
    /\ calls' = calls + 1
    /\ io_log' = <<>>
    /\ UNCHANGED <<file_state, file_content, kpmsVars, unitVars, glxVars, lazyVars>>

InitWrite ==
    /\ KpmsIdle
    /\ IcephysIdle
    /\ WriteIdle
    /\ UnitsIdle
    /\ GlxIdle
    /\ LazyIdle
    /\ metadata \in MetadataChoices

NextWrite ==
    \/ WriteNeoToNwbSavePath
    \/ WriteNeoToNwbNwbfile

SpecWrite == InitWrite /\ [][NextWrite]_vars

---------------------------------------------------------------------------
\* keypoint-moseq: the state machine of the extractor.

Labels == 1..MaxLabel

\* frame periods of the video, in clock ticks
FramePeriods == {1, 2}

InitKpms ==
    /\ syllables_arr \in SeqsUpTo(Labels, MaxFrames)
    /\ syll_ix = <<>>
    /\ syll_lab = <<>>
    /\ kpms_pc = "input"
    /\ \E period \in FramePeriods :
        timestamps = get_video_timestamps(Len(syllables_arr), period)
    /\ labeled_events = NoLabeledEvents
    /\ behavior_pm = <<>>
    /\ IcephysIdle
    /\ WriteIdle
    /\ UnitsIdle
    /\ GlxIdle
    /\ LazyIdle
    /\ metadata = MetadataNone

NextKpms ==
    \/ ExtractSyllables
    \/ WriteSubjectToNwb

SpecKpms == InitKpms /\ [][NextKpms]_vars

---------------------------------------------------------------------------
\* SpikeGLXConverter.__init__.  A stream name is held as the sequence of its
\* characters, so that "ap" in stream and stream[:5] are computed as Python
\* computes them.

\* sub in s, for strings
Contains(sub, s) ==
    \E k \in 0..(Len(s) - Len(sub)) : SubSeq(s, k + 1, k + Len(sub)) = sub

\* s[:n]
Prefix(s, n) == SubSeq(s, 1, Min(n, Len(s)))

imec0_ap == <<"i", "m", "e", "c", "0", ".", "a", "p">>
imec0_lf == <<"i", "m", "e", "c", "0", ".", "l", "f">>
imec1_ap == <<"i", "m", "e", "c", "1", ".", "a", "p">>
nidq == <<"n", "i", "d", "q">>

\* a stream name that is none of the three kinds (a OneBox stream)
obx0_obx == <<"o", "b", "x", "0", ".", "o", "b", "x">>

\* the stream names SpikeGLX folders hold, in the order the extractor lists them
StreamNames == <<imec0_ap, imec0_lf, imec1_ap, nidq>>

\* None, or a list
PyNone == [isNone |-> TRUE, value |-> <<>>]

PyList(l) == [isNone |-> FALSE, value |-> l]

\* a or b, for lists that may be None: the first operand when it is truthy
py_or(a, b) == IF a.isNone \/ Len(a.value) = 0 THEN b ELSE a

\* lines 24-28: get_streams asks the extractor for the streams of the folder
\* and binds them to a local name; it has no return statement
get_streams(folder) ==
    LET available_streams == PyList(folder)
    IN  PyNone

\* an interface object: its class and the file it was given
Interface(cls, folder, file) == [cls |-> cls, folder |-> folder, file |-> file]

Unbound == Interface("unbound", <<>>, <<>>)

\* lines 62-76: the three tests on one stream; interface keeps its value
\* when none of them applies
interface_for(stream, interface) ==
    LET probe_name == Prefix(stream, 5)
        i1 == IF Contains(<<"a", "p">>, stream)
              THEN Interface("SpikeGLXRecordingInterface", probe_name,
                             probe_name \o <<".ap.bin">>)
              ELSE interface
        i2 == IF Contains(<<"l", "f">>, stream)
              THEN Interface("SpikeGLXLFPInterface", probe_name,
                             probe_name \o <<".ap.bin">>)
              ELSE i1
        i3 == IF Contains(<<"n", "i", "d", "q">>, stream)
              THEN Interface("SpikeGLXNIDQInterface", <<>>, <<"nidq.bin">>)
              ELSE i2
    IN  i3

\* data_interfaces.update({stream: interface}): the value of an existing key
\* is replaced at its place, a new key goes to the end
dict_update(d, key, value) ==
    IF \E k \in 1..Len(d) : d[k].key = key
    THEN [k \in 1..Len(d) |-> IF d[k].key = key THEN [key |-> key, value |-> value]
                              ELSE d[k]]
    ELSE Append(d, [key |-> key, value |-> value])

\* the loop of lines 61-77 from stream i on
RECURSIVE stream_loop(_, _, _)
stream_loop(stream_list, i, a) ==
    IF i > Len(stream_list) \/ a.outcome # "ok" THEN a
    ELSE LET interface == interface_for(stream_list[i], a.interface)
         IN  IF interface = Unbound
             THEN [a EXCEPT !.outcome = "UnboundLocalError_interface"]
             ELSE stream_loop(stream_list, i + 1,
                      [a EXCEPT !.interface = interface,
                                !.data_interfaces =
                                    dict_update(@, stream_list[i], interface)])

\* SpikeGLXConverter(folder_path, streams), lines 55-79
SpikeGLXConverter_init(folder, streams_arg) ==
    LET available_streams == get_streams(folder)
        chosen == py_or(streams_arg, available_streams)
        start == [interface |-> Unbound, data_interfaces |-> <<>>, outcome |-> "ok"]
    IN  IF chosen.isNone
        THEN \* for stream in None
             [start EXCEPT !.outcome = "TypeError_streams"]
        ELSE stream_loop(chosen.value, 1, start)

\* the folders: every selection of the stream names, in the extractor's order
RECURSIVE Select(_, _, _)
Select(names, keep, i) ==
    IF i > Len(names) THEN <<>>
    ELSE (IF i \in keep THEN <<names[i]>> ELSE <<>>) \o Select(names, keep, i + 1)

Folders == {Select(StreamNames, keep, 1) : keep \in SUBSET (1..Len(StreamNames))}

\* the streams argument: left out (None), or a list of stream names
StreamsChoices ==
    {PyNone} \cup {PyList(l) : l \in SeqsUpTo(Range(StreamNames) \cup {obx0_obx},
                                               MaxStreams)}

\* a caller constructs SpikeGLXConverter(folder_path, streams)
ConstructSpikeGLXConverter ==
    /\ glx_outcome = "new"
    /\ LET c == SpikeGLXConverter_init(folder_streams, streams)
       IN  /\ data_interfaces' = c.data_interfaces
           /\ glx_outcome' = c.outcome
    /\ UNCHANGED <<folder_streams, streams, kpmsVars, icephysVars, writeVars, unitVars, lazyVars>>

InitGLX ==
    /\ KpmsIdle
    /\ LazyIdle
    /\ IcephysIdle
    /\ WriteIdle
    /\ UnitsIdle
    /\ metadata = MetadataNone
    /\ folder_streams \in Folders
    /\ streams \in StreamsChoices
    /\ data_interfaces = <<>>
    /\ glx_outcome = "new"

NextGLX == ConstructSpikeGLXConverter

SpecGLX == InitGLX /\ [][NextGLX]_vars

---------------------------------------------------------------------------
\* Segmentation interfaces: the state machine.

\* some code reads cls.SegX
AccessSegX ==
    /\ \E cls \in InterfaceClasses :
        segx_last' = [op |-> "getattr", cls |-> cls, result |-> lazy_SegX(segx, cls)]
    /\ UNCHANGED <<segx, kpmsVars, icephysVars, writeVars, unitVars, glxVars>>

\* some code instantiates cls: __new__ stores getattr(cls, "SegX") in the
\* class (line 31), __init__ calls self.SegX, found through the instance
\* (line 36)
InstantiateInterface ==
    /\ \E cls \in InterfaceClasses :
        /\ segx' = [segx EXCEPT ![cls] = lazy_SegX(segx, cls)]
        /\ segx_last' = [op |-> "instantiate", cls |-> cls,
                         result |-> type_getattribute(segx', cls)]
    /\ UNCHANGED <<kpmsVars, icephysVars, writeVars, unitVars, glxVars>>

InitLazy ==
    /\ KpmsIdle
    /\ IcephysIdle
    /\ WriteIdle
    /\ UnitsIdle
    /\ GlxIdle
    /\ LazyIdle
    /\ metadata = MetadataNone

NextLazy ==
    \/ AccessSegX
    \/ InstantiateInterface

SpecLazy == InitLazy /\ [][NextLazy]_vars

---------------------------------------------------------------------------
\* Claims about the changepoint extractor.

\* labels[i] for a 0-based i
LabelAt(i) == syllables_arr[i + 1]

\* the 0-based positions i >= 1 whose label differs from the one before
Onsets == {i \in 1..(Len(syllables_arr) - 1) : LabelAt(i) # LabelAt(i - 1)}

StrictlyIncreasing(s) == \A k \in 1..Len(s) : \A m \in 1..Len(s) : k < m => s[k] < s[m]

\* C1: the extractor returns exactly the positions i, 1 <= i <= length-1, with
\* labels[i] # labels[i-1], in ascending order, each paired with labels[i],
\* the label switched to; index 0 is never reported.
C1_OnsetsAndNewLabels ==
    kpms_pc = "events" =>
        /\ Range(syll_ix) = Onsets
        /\ StrictlyIncreasing(syll_ix)
        /\ Len(syll_lab) = Len(syll_ix)
        /\ \A k \in 1..Len(syll_ix) : syll_lab[k] = LabelAt(syll_ix[k])
        /\ 0 \notin Range(syll_ix)

\* C2: the number of changepoints equals the number of adjacent unequal pairs,
\* the indices are strictly increasing, and an empty or constant sequence
\* gives empty indices and empty values.
C2_CountAndOrder ==
    kpms_pc = "events" =>
        /\ Len(syll_ix) = Cardinality({j \in 1..(Len(syllables_arr) - 1) :
                                          syllables_arr[j] # syllables_arr[j + 1]})
        /\ Len(syll_lab) = Len(syll_ix)
        /\ StrictlyIncreasing(syll_ix)
        /\ (\A j \in 1..Len(syllables_arr) : syllables_arr[j] = syllables_arr[1])
               => syll_ix = <<>> /\ syll_lab = <<>>

\* the extractor ran on [1, 1, 2, 2, 3] and reported two changepoints
C2_Witness ==
    /\ kpms_pc = "events"
    /\ syllables_arr = <<1, 1, 2, 2, 3>>
    /\ Len(syll_ix) = 2

---------------------------------------------------------------------------
\* Claims about the recording assembler.

\* the call that just ended was an append (directly or through add_all_to_nwbfile)
AppendOps == {"add_icephys_recordings", "add_all_to_nwbfile"}

\* the rows the last call created
RowsOfLastCall ==
    {i \in 1..Len(intracellular_recordings) : intracellular_recordings[i].call = calls}

\* C3: over all appends to one container the intracellular-recording row
\* indices are pairwise distinct and strictly increasing in creation order; a
\* later append's rows lie above every row of an earlier append, and the
\* running index of the code is the index the table gives the row.
C3_RowIndicesIncrease ==
    \A i \in 1..Len(intracellular_recordings) :
        /\ intracellular_recordings[i].ri = intracellular_recordings[i].id
        /\ intracellular_recordings[i].id = i - 1
        /\ \A j \in 1..Len(intracellular_recordings) :
            /\ i < j => intracellular_recordings[i].ri < intracellular_recordings[j].ri
            /\ intracellular_recordings[i].call < intracellular_recordings[j].call
                   => intracellular_recordings[i].ri < intracellular_recordings[j].ri

\* two appends have each added rows to the same container
C3_Witness ==
    /\ calls = 2
    /\ \E i \in RowsOfLastCall :
           \E j \in 1..Len(intracellular_recordings) :
               intracellular_recordings[j].call = 1 /\ j < i

\* a reader whose command count is nonzero and differs from its segment count
CountMismatch(neo_reader) ==
    /\ neo_reader.fFileVersionNumber >= 2
    /\ neo_reader.n_protocol # 0
    /\ neo_reader.n_protocol # neo_reader.nb_segment

\* C4: when n_commands is nonzero and differs from n_segments, the append
\* fails and the intracellular, simultaneous and sequential tables hold
\* exactly the rows they held before the call.
C4_MismatchLeavesTables ==
    [][(last'.op = "add_icephys_recordings" /\ calls' = calls + 1
            /\ CountMismatch(last'.neo_reader))
        => /\ last'.outcome = "AssertionError_commands"
           /\ intracellular_recordings' = intracellular_recordings
           /\ icephys_simultaneous_recordings' = icephys_simultaneous_recordings
           /\ icephys_sequential_recordings' = icephys_sequential_recordings]_vars

\* an append with mismatched counts failed on a container that already holds rows
C4_Witness ==
    /\ last.op = "add_icephys_recordings"
    /\ CountMismatch(last.neo_reader)
    /\ last.outcome = "AssertionError_commands"
    /\ Len(intracellular_recordings) > 0

\* a reader that reports no commands (ABF before version 2, or an empty protocol)
NoCommands(neo_reader) ==
    neo_reader.fFileVersionNumber < 2 \/ neo_reader.n_protocol = 0

\* C5: when the reader reports no commands, whatever experiment type the
\* caller asked for, the append does not fail on the experiment-type check,
\* a warning is emitted, and every row it creates has an izero response and
\* no stimulus.
C5_NoCommandsMeansIzero ==
    (last.op = "add_icephys_recordings" /\ NoCommands(last.neo_reader)) =>
        /\ last.outcome \notin {"AssertionError_experiment_type", "AssertionError_commands"}
        /\ "no_commands_izero" \in warnings
        /\ \A i \in RowsOfLastCall :
            /\ intracellular_recordings[i].response.cls = "IZeroClampSeries"
            /\ intracellular_recordings[i].response.name[1] = "izero"
            /\ intracellular_recordings[i].stimulus = NoStimulus

\* an append without commands, asked for with no valid type, completed with rows
C5_Witness ==
    /\ last.op = "add_icephys_recordings"
    /\ NoCommands(last.neo_reader)
    /\ last.icephys_experiment_type = "None"
    /\ last.outcome = "ok"
    /\ RowsOfLastCall # {}

\* an ABF1 reader, asked for as voltage clamp, was appended as izero
C5_WitnessAbf1 ==
    /\ last.op = "add_icephys_recordings"
    /\ last.neo_reader.fFileVersionNumber < 2
    /\ last.icephys_experiment_type = "voltage_clamp"
    /\ last.outcome = "ok"
    /\ RowsOfLastCall # {}

\* C6: every append that completes closes exactly one sequential group; its
\* members are exactly the simultaneous groups created in that call, one per
\* segment and in segment order, none of them from an earlier append; its tag
\* is the caller's stimulus type.  An append that fails closes none.
C6_OneSequentialGroupPerAppend ==
    [][(last'.op \in AppendOps /\ calls' = calls + 1) =>
        IF last'.outcome = "ok"
        THEN LET before == Len(icephys_sequential_recordings)
                 group == icephys_sequential_recordings'[before + 1]
                 n == last'.neo_reader.nb_segment
             IN  /\ Len(icephys_sequential_recordings') = before + 1
                 /\ SubSeq(icephys_sequential_recordings', 1, before)
                        = icephys_sequential_recordings
                 /\ Len(icephys_simultaneous_recordings')
                        = Len(icephys_simultaneous_recordings) + n
                 /\ group.simultaneous_recordings
                        = [s \in 1..n |-> Len(icephys_simultaneous_recordings) + s - 1]
                 /\ group.stimulus_type = last'.stimulus_type
                 /\ \A m \in Range(group.simultaneous_recordings) :
                        \A r \in Range(icephys_simultaneous_recordings'[m + 1]) :
                            intracellular_recordings'[r + 1].call = calls'
        ELSE icephys_sequential_recordings' = icephys_sequential_recordings]_vars

\* a second append completed: its group starts after the first append's groups
C6_Witness ==
    /\ last.op = "add_icephys_recordings"
    /\ last.outcome = "ok"
    /\ last.neo_reader.nb_segment = 2
    /\ Len(icephys_sequential_recordings) = 2
    /\ icephys_sequential_recordings[2].simultaneous_recordings[1] > 0
    /\ icephys_sequential_recordings[2].stimulus_type
           # icephys_sequential_recordings[1].stimulus_type

\* the lists of a table of lists, one after the other
RECURSIVE Flatten(_)
Flatten(lists) ==
    IF lists = <<>> THEN <<>> ELSE Head(lists) \o Flatten(Tail(lists))

\* the channel of the response of the row with index r
ChannelOfRow(r) == intracellular_recordings[r + 1].response.name[3]

\* the electrodes the electrode loop of the last call went through
ChannelsOfLastCall ==
    {ei \in 0..(Min(Len(icephys_electrodes), last.neo_reader.n_channels) - 1) :
        ei \notin last.skip_electrodes}

\* C7: every segment of an append gets one simultaneous group holding exactly
\* the rows created for that segment, one per electrode that is not skipped,
\* in electrode order; no row belongs to two groups.
C7_SimultaneousGroups ==
    /\ Flatten(icephys_simultaneous_recordings)
           = [i \in 1..Len(intracellular_recordings) |-> i - 1]
    /\ \A g \in 1..Len(icephys_simultaneous_recordings) :
        LET group == icephys_simultaneous_recordings[g]
        IN  /\ \A k \in 1..Len(group) :
                   intracellular_recordings[group[k] + 1].response.name[2] = g
            /\ StrictlyIncreasing([k \in 1..Len(group) |-> ChannelOfRow(group[k])])
    /\ (last.op \in AppendOps /\ last.outcome = "ok") =>
        \A s \in 1..last.neo_reader.nb_segment :
            LET g == Len(icephys_simultaneous_recordings) - last.neo_reader.nb_segment + s
                group == icephys_simultaneous_recordings[g]
            IN  /\ {ChannelOfRow(group[k]) : k \in 1..Len(group)} = ChannelsOfLastCall
                /\ \A k \in 1..Len(group) :
                    /\ intracellular_recordings[group[k] + 1].call = calls
                    /\ intracellular_recordings[group[k] + 1].electrode
                           = icephys_electrodes[ChannelOfRow(group[k]) + 1].name

\* an append of two segments over two electrodes, one of them skipped, after
\* an earlier append
C7_Witness ==
    /\ last.op = "add_icephys_recordings"
    /\ last.outcome = "ok"
    /\ last.neo_reader.nb_segment = 2
    /\ last.skip_electrodes = {0}
    /\ Len(icephys_electrodes) = 2
    /\ last.neo_reader.n_channels = 2
    /\ Len(icephys_simultaneous_recordings) > 2
    /\ Len(icephys_simultaneous_recordings[1]) = 2

\* C8: the append that starts with k sequential groups uses Sessions[k]:
\* every response and stimulus it creates for segment s starts at the reader's
\* start time of s plus Sessions[k].relative_session_start_time, and carries
\* Sessions[k].stimulus_type in its description.
C8_SessionEntryAndStartingTime ==
    [][(last'.op \in AppendOps /\ calls' = calls + 1 /\ last'.outcome = "ok") =>
        LET k == Len(icephys_sequential_recordings)
            session == metadata'.Sessions[k + 1]
        IN  \A i \in (Len(intracellular_recordings) + 1)..Len(intracellular_recordings') :
                LET row == intracellular_recordings'[i]
                    si == row.response.name[2] - 1 - Len(icephys_simultaneous_recordings)
                    t == get_signal_t_start(last'.neo_reader, si)
                            + session.relative_session_start_time
                IN  /\ row.response.starting_time = t
                    /\ row.response.description[2] = session.stimulus_type
                    /\ row.stimulus # NoStimulus =>
                        /\ row.stimulus.starting_time = t
                        /\ row.stimulus.description[2] = session.stimulus_type]_vars

\* a second append with stimuli: its second segment starts at 1 + 10
C8_Witness ==
    /\ last.op = "add_icephys_recordings"
    /\ last.outcome = "ok"
    /\ Len(icephys_sequential_recordings) = 2
    /\ \E i \in RowsOfLastCall :
        /\ intracellular_recordings[i].stimulus # NoStimulus
        /\ intracellular_recordings[i].stimulus.starting_time = 11

---------------------------------------------------------------------------
\* Claims about the electrode registrar.

RegistrarOps == {"add_icephys_electrode", "add_all_to_nwbfile"}

\* the caller supplied no device and no electrode metadata
NoDeviceNoElectrodeMetadata(md) ==
    md.isNone \/ (~md.hasDevice /\ ~md.hasElectrodes)

\* C9: on a container without devices and electrodes, with no device or
\* electrode metadata, a default run creates exactly one device and one
\* electrode per reader channel, named icephys_electrode_0 .. n-1, each
\* referencing that device.
C9_DefaultDeviceAndElectrodes ==
    [][(last'.op \in RegistrarOps /\ calls' = calls + 1
            /\ devices = <<>> /\ icephys_electrodes = <<>>
            /\ NoDeviceNoElectrodeMetadata(metadata))
        => /\ Len(devices') = 1
           /\ Len(icephys_electrodes') = last'.neo_reader.n_channels
           /\ \A i \in 1..Len(icephys_electrodes') :
               /\ icephys_electrodes'[i].name = <<"icephys_electrode_", i - 1>>
               /\ icephys_electrodes'[i].device = devices'[1]]_vars

\* a default run for a reader with the most channels
C9_Witness ==
    /\ last.op = "add_all_to_nwbfile"
    /\ calls = 1
    /\ last.neo_reader.n_channels = MaxChannels
    /\ Len(devices) = 1
    /\ Len(icephys_electrodes) = MaxChannels
    /\ icephys_electrodes[MaxChannels].name = <<"icephys_electrode_", MaxChannels - 1>>

\* the name and the device an entry of the electrode metadata asks for
RequestedName(elec) ==
    IF elec.hasName THEN elec.name ELSE <<"icephys_electrode_", 0>>

RequestedDevice(elec, devs) ==
    IF elec.hasDeviceName THEN elec.device_name ELSE devs[1]

\* C10: when electrode metadata names a device the container lacks, the
\* registrar creates that device and then the electrode, which references it:
\* after a registrar call on well-formed metadata every requested electrode
\* exists, with the device it asked for; and every electrode references a
\* device of the container, every row an electrode of the container.
C10_RequestedDeviceIsCreated ==
    /\ \A i \in 1..Len(icephys_electrodes) : icephys_electrodes[i].device \in Range(devices)
    /\ \A i \in 1..Len(intracellular_recordings) :
           intracellular_recordings[i].electrode \in ElectrodeNames(icephys_electrodes)
    /\ (/\ last.op = "add_icephys_electrode"
        /\ ~metadata.isNone
        /\ \A k \in 1..Len(metadata.Electrodes) : metadata.Electrodes[k].isDict)
       => /\ last.outcome = "ok"
          /\ \A k \in 1..Len(metadata.Electrodes) :
                RequestedName(metadata.Electrodes[k]) \in ElectrodeNames(icephys_electrodes)
          /\ calls = 1 =>
                \A k \in 1..Len(metadata.Electrodes) :
                    \E i \in 1..Len(icephys_electrodes) :
                        /\ icephys_electrodes[i].name = RequestedName(metadata.Electrodes[k])
                        /\ icephys_electrodes[i].device
                               = RequestedDevice(metadata.Electrodes[k], devices)

\* the referential part of C10, which the code keeps: every electrode
\* references a device of the container and every row an electrode of it
ReferencesExist ==
    /\ \A i \in 1..Len(icephys_electrodes) : icephys_electrodes[i].device \in Range(devices)
    /\ \A i \in 1..Len(intracellular_recordings) :
           intracellular_recordings[i].electrode \in ElectrodeNames(icephys_electrodes)


---------------------------------------------------------------------------
\* Claims about re-running the registrar.

\* the electrode names a registrar call asks for: those of the electrode
\* metadata, or the defaults of the reader when there is none
RequestedNames(md, neo_reader) ==
    IF md.isNone \/ ~md.hasElectrodes \/ Len(md.Electrodes) = 0
    THEN {ElectrodeDefaultName(i - 1) : i \in 1..neo_reader.n_channels}
    ELSE {RequestedName(md.Electrodes[k]) : k \in 1..Len(md.Electrodes)}

\* every entry of the electrode metadata is a dict
AllEntriesAreDicts(md) ==
    md.isNone \/ \A k \in 1..Len(md.Electrodes) : md.Electrodes[k].isDict

\* C11: electrode creation is idempotent by name.  A registrar call keeps
\* every electrode the container held, at its place and with its description
\* and device, and never makes two electrodes of one name; when every name it
\* asks for is already in the container it completes and creates no electrode
\* and no device, so a second identical call leaves what the first one left.
C11_ElectrodeCreationIdempotent ==
    [][(last'.op = "add_icephys_electrode" /\ calls' = calls + 1) =>
        /\ Len(icephys_electrodes') >= Len(icephys_electrodes)
        /\ SubSeq(icephys_electrodes', 1, Len(icephys_electrodes)) = icephys_electrodes
        /\ Cardinality(ElectrodeNames(icephys_electrodes')) = Len(icephys_electrodes')
        /\ (/\ AllEntriesAreDicts(metadata)
            /\ RequestedNames(metadata, last'.neo_reader)
                   \subseteq ElectrodeNames(icephys_electrodes))
           => /\ last'.outcome = "ok"
              /\ devices' = devices
              /\ icephys_electrodes' = icephys_electrodes]_vars

\* the registrar ran a second time on a container that already held the two
\* electrodes its metadata names, and created no device
C11_Witness ==
    /\ last.op = "add_icephys_electrode"
    /\ last.outcome = "ok"
    /\ calls = 2
    /\ warnings = {}
    /\ intracellular_recordings = <<>>
    /\ Len(icephys_electrodes) = 2
    /\ RequestedNames(metadata, last.neo_reader) = ElectrodeNames(icephys_electrodes)


\* C12: when an entry of the caller's electrode metadata is not a dict, the
\* registrar fails and the container has the devices and the electrodes it
\* had before the call.
C12_MalformedEntryNoPartialWrite ==
    [][(last'.op = "add_icephys_electrode" /\ calls' = calls + 1
            /\ ~AllEntriesAreDicts(metadata))
        => /\ last'.outcome = "AssertionError_electrodes"
           /\ devices' = devices
           /\ icephys_electrodes' = icephys_electrodes]_vars

---------------------------------------------------------------------------
\* Claims about the rows of an append and about the caller's metadata.

\* the reader channels an append is to record: all but the skipped ones
RecordedChannels(neo_reader, skip_electrodes) ==
    (0..(neo_reader.n_channels - 1)) \ skip_electrodes

\* C19: every completed append adds exactly n_segments rows for every reader
\* channel that is not skipped, whatever electrodes the container held.
C19_RowsPerSegmentAndChannel ==
    (last.op \in AppendOps /\ last.outcome = "ok") =>
        Cardinality(RowsOfLastCall)
            = last.neo_reader.nb_segment
                * Cardinality(RecordedChannels(last.neo_reader, last.skip_electrodes))

\* C20: a registrar call leaves the caller's metadata object as it was.
C20_MetadataUnchanged ==
    [][(last'.op \in RegistrarOps /\ calls' = calls + 1)
        => metadata' = metadata]_vars


---------------------------------------------------------------------------
\* icephys: the unit resolver (get_conversion_from_unit).  A conversion
\* factor 10^k is held as its exponent k, so 1e-12 is -12 and 1.0 is 0.

\* a slip: the fall-through branch does not warn
get_conversion_from_unit_silent(u) ==
    IF u \in {"pA", "pV"} THEN [conversion |-> -12, warnings |-> 0]
    ELSE IF u \in {"nA", "nV"} THEN [conversion |-> -9, warnings |-> 0]
    ELSE IF u \in {"uA", "uV"} THEN [conversion |-> -6, warnings |-> 0]
    ELSE IF u \in {"mA", "mV"} THEN [conversion |-> -3, warnings |-> 0]
    ELSE [conversion |-> 0, warnings |-> 0]

\* lines 103-116: the if / elif chain; the else branch warns once
get_conversion_from_unit(u) ==
    IF u \in {"pA", "pV"} THEN [conversion |-> -12, warnings |-> 0]
    ELSE IF u \in {"nA", "nV"} THEN [conversion |-> -9, warnings |-> 0]
    ELSE IF u \in {"uA", "uV"} THEN [conversion |-> -6, warnings |-> 0]
    ELSE IF u \in {"mA", "mV"} THEN [conversion |-> -3, warnings |-> 0]
    ELSE IF u \in {"A", "V"} THEN [conversion |-> 0, warnings |-> 0]
    ELSE [conversion |-> 0, warnings |-> 1]

\* the unit strings a reader's header may carry: SI prefixes in both cases on
\* ampere, volt and other bases, and strings that are no unit at all
UnitPrefixes == {"", "p", "n", "u", "m", "P", "N", "U", "M", "k", "G"}

UnitBases == {"A", "V", "a", "v", "W", ""}

UnitChoices ==
    {prefix \o base : prefix \in UnitPrefixes, base \in UnitBases}
        \cup {"XYZ", "mV ", " pA", "volt", "Amp"}

\* lines 308-309: response_unit = neo_reader.header["signal_channels"]["units"][ei],
\* then get_conversion_from_unit(unit=response_unit)
ResolveUnit ==
    /\ unit_pc = "input"
    /\ conversion' = get_conversion_from_unit(unit).conversion
    /\ unit_warnings' = unit_warnings + get_conversion_from_unit(unit).warnings
    /\ unit_pc' = "resolved"
    /\ UNCHANGED <<unit, kpmsVars, icephysVars, writeVars, glxVars, lazyVars>>

InitUnits ==
    /\ KpmsIdle
    /\ IcephysIdle
    /\ WriteIdle
    /\ GlxIdle
    /\ LazyIdle
    /\ metadata = MetadataNone
    /\ unit \in UnitChoices
    /\ conversion = 0
    /\ unit_warnings = 0
    /\ unit_pc = "input"

NextUnits == ResolveUnit

SpecUnits == InitUnits /\ [][NextUnits]_vars

\* the closed set of units and the exponent of each
KnownUnits ==
    [pA |-> -12, pV |-> -12, nA |-> -9, nV |-> -9, uA |-> -6, uV |-> -6,
     mA |-> -3, mV |-> -3, A |-> 0, V |-> 0]

\* C15: the resolver is an exact, case-sensitive lookup: a unit of the closed
\* set gets its factor and no warning; every other string gets 1.0 and
\* exactly one warning.
C15_ExactCaseSensitiveLookup ==
    unit_pc = "resolved" =>
        IF unit \in DOMAIN KnownUnits
        THEN conversion = KnownUnits[unit] /\ unit_warnings = 0
        ELSE conversion = 0 /\ unit_warnings = 1

\* 'MV' was resolved: 1.0 with one warning, not the 1e-3 of 'mV'
C15_Witness ==
    /\ unit_pc = "resolved"
    /\ unit = "MV"
    /\ conversion = 0
    /\ unit_warnings = 1


---------------------------------------------------------------------------
\* Claims about write_neo_to_nwb.

\* a step that is a write_neo_to_nwb call with a save_path
WriteStep ==
    /\ last'.op = "write_neo_to_nwb"
    /\ calls' = calls + 1
    /\ write_args'.save_path

\* the statement that a failed call leaves the file as it was, for every
\* combination of file-exists and overwrite
C13_FailedWriteLeavesFile ==
    [][(WriteStep /\ last'.outcome # "ok")
        => /\ file_state' = file_state
           /\ file_content' = file_content]_vars

\* C13: a call that fails before the flush (on reading the file, on the count
\* check, on the metadata) leaves the file as it was when the file exists and
\* overwrite is false.  In create mode the file is created or truncated when
\* the handle is opened, so a failed call leaves an empty file; a failure
\* of the flush itself gives no guarantee.
C13_FailedAppendLeavesFile ==
    [][(WriteStep /\ last'.outcome \notin {"ok", "Error_write"}
            /\ file_state # "absent" /\ ~write_args'.overwrite)
        => /\ file_state' = file_state
           /\ file_content' = file_content]_vars

\* an append to a file that holds rows failed on the count check, and the
\* file still holds them
C13_Witness ==
    /\ last.op = "write_neo_to_nwb"
    /\ write_args.save_path
    /\ ~write_args.overwrite
    /\ CountMismatch(last.neo_reader)
    /\ last.outcome = "AssertionError_commands"
    /\ file_state = "valid"
    /\ Len(file_content.intracellular_recordings) > 0

\* the number of events e in a log
Count(log, e) == Cardinality({k \in 1..Len(log) : log[k] = e})

\* C14: with a save_path the handle is opened once, in append mode exactly
\* when the file exists and overwrite is false; it is closed once, as the
\* last thing, however the call ends; io.write runs only after the assembly
\* and only when the assembly completed.
C14_HandleScopedToCall ==
    [][WriteStep =>
        /\ Len(io_log') >= 2
        /\ io_log'[1] = (IF file_state # "absent" /\ ~write_args'.overwrite
                         THEN "open_r+" ELSE "open_w")
        /\ Count(io_log', "open_r+") + Count(io_log', "open_w") = 1
        /\ io_log'[Len(io_log')] = "close"
        /\ Count(io_log', "close") = 1
        /\ Count(io_log', "write") <= 1
        /\ Count(io_log', "write") = 1 <=>
               /\ last'.outcome \in {"ok", "Error_write"}
               /\ Len(io_log') >= 3
               /\ io_log'[Len(io_log') - 2] = "add_all"
               /\ io_log'[Len(io_log') - 1] = "write"
        /\ last'.outcome = "ok" => file_state' = "valid"]_vars

\* an append failed during the assembly: opened for append, read, no write,
\* closed
C14_Witness ==
    /\ last.op = "write_neo_to_nwb"
    /\ write_args.save_path
    /\ last.outcome = "AssertionError_commands"
    /\ io_log = <<"open_r+", "read", "add_all", "close">>

\* the rows the last write_neo_to_nwb call created
RowsOfLastWrite ==
    LET rows == IF write_args.save_path THEN file_content.intracellular_recordings
                ELSE intracellular_recordings
    IN  {rows[i] : i \in {k \in 1..Len(rows) : rows[k].call = calls}}

\* a reader with as many commands as segments
CommandsMatchSegments(neo_reader) ==
    /\ neo_reader.fFileVersionNumber >= 2
    /\ neo_reader.n_protocol > 0
    /\ neo_reader.n_protocol = neo_reader.nb_segment

\* C16: write_neo_to_nwb called without an experiment type, for a reader with
\* as many commands as segments, passes the experiment-type check as
\* 'voltage_clamp', and the rows of a completed call are voltage-clamp
\* responses with voltage-clamp stimuli.
C16_DefaultExperimentType ==
    (/\ last.op = "write_neo_to_nwb"
     /\ last.icephys_experiment_type = "None"
     /\ CommandsMatchSegments(last.neo_reader))
    => /\ last.outcome # "AssertionError_experiment_type"
       /\ last.outcome = "ok" =>
            \A row \in RowsOfLastWrite :
                /\ row.response.cls = "VoltageClampSeries"
                /\ row.stimulus.cls = "VoltageClampStimulusSeries"

\* the outcomes of a call that fails on its metadata
MetadataFailures ==
    {"TypeError_metadata", "KeyError_sessions", "IndexError_sessions",
     "KeyError_device", "AssertionError_electrodes"}

\* C17: write_neo_to_nwb called with metadata None does not fail on a missing
\* metadata key.
C17_MetadataOptional ==
    (/\ last.op = "write_neo_to_nwb"
     /\ write_args.metadata_is_none)
    => last.outcome \notin MetadataFailures


---------------------------------------------------------------------------
\* Claims about SpikeGLXConverter.

\* the keys of the data_interfaces dict, in insertion order
InterfaceKeys == [k \in 1..Len(data_interfaces) |-> data_interfaces[k].key]

\* C18: constructing the converter without a streams argument does not fail
\* and gives one data interface per stream of the folder.
C18_AllStreamsByDefault ==
    (glx_outcome # "new" /\ streams.isNone) =>
        /\ glx_outcome = "ok"
        /\ InterfaceKeys = folder_streams


---------------------------------------------------------------------------
\* Claims about the labels of one append.

\* C21: within one append, the stimulus-type label of the sequential group
\* equals the stimulus type in the descriptions of the group's response and
\* stimulus records.
C21_GroupLabelMatchesDescriptions ==
    (last.op \in AppendOps /\ last.outcome = "ok") =>
        LET group == icephys_sequential_recordings[Len(icephys_sequential_recordings)]
        IN  \A i \in RowsOfLastCall :
                /\ intracellular_recordings[i].response.description[2]
                       = group.stimulus_type
                /\ intracellular_recordings[i].stimulus # NoStimulus =>
                       intracellular_recordings[i].stimulus.description[2]
                           = group.stimulus_type


\* the part of a stream name before its first "."
ProbeOf(stream) ==
    LET dots == {k \in 1..Len(stream) : stream[k] = "."}
    IN  IF dots = {} THEN stream
        ELSE SubSeq(stream, 1, (CHOOSE k \in dots : \A j \in dots : k <= j) - 1)

\* the band of a stream name: its last two characters
BandOf(stream) == SubSeq(stream, Len(stream) - 1, Len(stream))

\* the interface a stream is to get: the class of its kind, on its own file
OwnInterface(stream) ==
    IF stream = nidq
    THEN Interface("SpikeGLXNIDQInterface", <<>>, <<"nidq.bin">>)
    ELSE IF BandOf(stream) = <<"a", "p">>
    THEN Interface("SpikeGLXRecordingInterface", ProbeOf(stream),
                   ProbeOf(stream) \o <<".ap.bin">>)
    ELSE IF BandOf(stream) = <<"l", "f">>
    THEN Interface("SpikeGLXLFPInterface", ProbeOf(stream),
                   ProbeOf(stream) \o <<".lf.bin">>)
    ELSE Unbound

\* C22: every requested stream is mapped to the interface of its own kind on
\* its own file, and a stream of none of the three kinds gets no interface.
C22_StreamsMappedToOwnInterface ==
    glx_outcome = "ok" =>
        \A k \in 1..Len(data_interfaces) :
            /\ OwnInterface(data_interfaces[k].key) # Unbound
            /\ data_interfaces[k].value = OwnInterface(data_interfaces[k].key)

\* the part of C22 about streams of no kind alone: such a stream never holds
\* an interface
UnknownStreamGetsNoInterface ==
    \A k \in 1..Len(data_interfaces) : OwnInterface(data_interfaces[k].key) # Unbound


---------------------------------------------------------------------------
\* Claims about the segmentation interfaces.

\* C23: whatever was accessed or instantiated before, cls.SegX and the
\* extractor of a new instance of cls are the extractor that cls's own
\* SegXModule, SegXName and name select.
C23_SegXIsOwnExtractor ==
    segx_last.op # "none" => segx_last.result = resolve_extractor(segx_last.cls)

\* The adjacent pairs of frames that differ, by the 1-based position of the
\* first frame of the pair (the 0-based changepoint index is one less).
DifferingPairs == {j \in 1..(Len(syllables_arr) - 1) : syllables_arr[j] # syllables_arr[j + 1]}

\* C24: for every non-empty per-frame syllable sequence, a constant one
\* included, write_subject_to_nwb completes and the behavior module holds the
\* syllable event series: it has one event per changepoint, its timestamps
\* are the frame timestamps at the changepoint indices in ascending order,
\* and every event value is below the number of labels.
C24_SyllableSeriesForEverySequence ==
    (kpms_pc \in {"written", "ValueError"} /\ Len(syllables_arr) >= 1) =>
        /\ kpms_pc = "written"
        /\ labeled_events.made
        /\ "syllable" \in Range(behavior_pm)
        /\ Len(labeled_events.data) = Cardinality(DifferingPairs)
        /\ Len(labeled_events.timestamps) = Cardinality(DifferingPairs)
        /\ Range(labeled_events.timestamps) = {timestamps[j] : j \in DifferingPairs}
        /\ StrictlyIncreasing(labeled_events.timestamps)
        /\ \A k \in 1..Len(labeled_events.data) :
               labeled_events.data[k] < Len(labeled_events.labels)

=============================================================================
